---- MODULE Spec2Model ----
(***************************************************************************)
(* A model of punch_clock.py: the class PunchClock (a pandas data frame    *)
(* of clock punches with a stored state), its CSV log on disk, and the     *)
(* scoped use of an instance (load, operations, save).                     *)
(*                                                                         *)
(* The data frame is a sequence of rows in positional order.  Each row     *)
(* carries its index label (idx) next to its two cells, because the code   *)
(* addresses rows by label (.loc) when it writes and by position (.iloc)   *)
(* when it reads.  A cell is None (missing, NaN) or <<t>> for an integer   *)
(* timestamp t.                                                            *)
(***************************************************************************)
EXTENDS Integers, Sequences, FiniteSets, TLC

VARIABLES
    file,       \* the content of the log file at _LOG_PATH
    _frame,     \* PunchClock._frame: the rows of the instance
    _state,     \* PunchClock._state
    pc,         \* position of the caller: "closed" (nothing running),
                \* "open" (in the with block), "raised" (an exception is
                \* leaving the block), "saved" (the block was left
                \* normally), "failed" (an exception reached the caller)
    now,        \* the clock read by time.time(), in whole seconds
    op,         \* history: the last operation performed
    at,         \* history: the clock value when op ran
    prev_op,    \* history: the operation before op, on this instance
    prev_at,    \* history: the clock value when prev_op ran
    pre_frame,  \* history: _frame just before op
    pre_state,  \* history: _state just before op
    ret,        \* history: what the last sum() returned or raised
    prev_ret,   \* history: ret just before op
    loaded,     \* history: the file content the instance was loaded from
    untouched,  \* history: no effective mutation since the load
    nops,       \* number of operations performed on the instance
    loads       \* number of instances constructed so far

vars == <<file, _frame, _state, pc, now, op, at, prev_op, prev_at,
          pre_frame, pre_state, ret, prev_ret, loaded, untouched, nops,
          loads>>

----------------------------------------------------------------------------
(* Bounds of the model. *)

MaxTime == 3
MaxOps == 4
MaxLoads == 2
MaxInvocations == 4

----------------------------------------------------------------------------
(* class State *)

State_IN == "In"
State_OUT == "Out"

(* PunchClock._COLUMN_NAMES: the header of the log. *)
_COLUMN_NAMES == <<State_IN, State_OUT>>

_NULL_REPLACEMENT == 0

(* The index label punch_in writes its row under. *)
PunchInLabel == 0 - 1

(* A missing value (None / NaN) and the test pandas.isnull. *)
None == <<>>
isnull(c) == c = None

----------------------------------------------------------------------------
(* The log file.  A file is missing, empty (zero bytes), or CSV text: a    *)
(* header line and data lines, each line a sequence of cell texts.         *)

MissingFile == [kind |-> "missing", header |-> <<>>, lines |-> <<>>]
EmptyFile == [kind |-> "empty", header |-> <<>>, lines |-> <<>>]

(* A non-empty file that is not a punch log: CSV text with other columns.  *)
WrongSchemaFile ==
    [kind |-> "csv", header |-> <<"Date", "Hours">>,
     lines |-> <<<<"1", "2">>>>]

(* float_format "%.0f" / the text of an integer: decimal digits, no point; *)
(* a missing value is written as the empty text.                           *)
FormatCell(c) == IF isnull(c) THEN "" ELSE ToString(c[1])

(* read_csv's reading of one cell text: blank is NaN, digits a number.     *)
ParseCell(s) ==
    IF s = "" THEN None
    ELSE <<CHOOSE t \in 0..MaxTime : ToString(t) = s>>

(* DataFrame.to_csv(path, index=False, float_format="%.0f"): the header    *)
(* and one line per row in positional order; the index labels are dropped. *)
to_csv(fr) ==
    [kind |-> "csv",
     header |-> _COLUMN_NAMES,
     lines |-> [i \in 1..Len(fr) |->
                    <<FormatCell(fr[i].In), FormatCell(fr[i].Out)>>]]

(* pandas.read_csv on CSV text: one row per data line, labelled by a fresh *)
(* RangeIndex 0..n-1.                                                      *)
read_csv_skips_first_row(f) ==
    [i \in 1..(IF Len(f.lines) = 0 THEN 0 ELSE Len(f.lines) - 1) |->
        [idx |-> i - 1,
         In |-> ParseCell(f.lines[i + 1][1]),
         Out |-> ParseCell(f.lines[i + 1][2])]]

read_csv(f) ==
    [i \in 1..Len(f.lines) |->
        [idx |-> i - 1,
         In |-> ParseCell(f.lines[i][1]),
         Out |-> ParseCell(f.lines[i][2])]]

----------------------------------------------------------------------------
(* The methods of PunchClock, as functions of the instance's fields and    *)
(* the clock value t returned by _get_current_time().                      *)

(* reset: an empty frame with the two columns, state OUT. *)
reset_keeps_state(fr, st) == [frame |-> <<>>, state |-> st]

reset(fr, st) == [frame |-> <<>>, state |-> State_OUT]

(* __init__ raises: read_csv succeeds on any CSV text, and the look-up of  *)
(* the column "Out" then raises KeyError when the header lacks it.  Only   *)
(* FileNotFoundError and EmptyDataError are caught.                        *)
init_never_raises(f) == FALSE

init_raises(f) ==
    /\ f.kind = "csv"
    /\ \A i \in 1..Len(f.header) : f.header[i] # State_OUT

(* __init__: load the frame (or reset when the file is missing or empty)   *)
(* and derive the state from the last Out cell.                            *)
init_in_when_empty(f) ==
    LET fr == IF f.kind \in {"missing", "empty"}
              THEN reset(<<>>, State_OUT).frame
              ELSE read_csv(f)
    IN [frame |-> fr,
        state |-> IF Len(fr) = 0 \/ isnull(fr[Len(fr)].Out)
                  THEN State_IN ELSE State_OUT]

init(f) ==
    LET fr == IF f.kind \in {"missing", "empty"}
              THEN reset(<<>>, State_OUT).frame
              ELSE read_csv(f)
    IN [frame |-> fr,
        state |-> IF Len(fr) # 0 /\ isnull(fr[Len(fr)].Out)
                  THEN State_IN ELSE State_OUT]

(* The positions of the rows carrying a label. *)
Positions(fr, label) == {i \in 1..Len(fr) : fr[i].idx = label}

(* frame.loc[label] = [a, b]: overwrite the row labelled label, or enlarge *)
(* the frame by a row with that label when no row carries it.              *)
loc_set_row(fr, label, a, b) ==
    IF Positions(fr, label) # {}
    THEN [i \in 1..Len(fr) |->
            IF fr[i].idx = label THEN [idx |-> label, In |-> a, Out |-> b]
            ELSE fr[i]]
    ELSE Append(fr, [idx |-> label, In |-> a, Out |-> b])

(* frame.loc[label, "Out"] = b: set the Out cell of the row labelled       *)
(* label, or enlarge the frame by a row with that label, whose In cell is  *)
(* missing, when no row carries it.                                        *)
loc_set_out(fr, label, b) ==
    IF Positions(fr, label) # {}
    THEN [i \in 1..Len(fr) |->
            IF fr[i].idx = label THEN [fr[i] EXCEPT !.Out = b] ELSE fr[i]]
    ELSE Append(fr, [idx |-> label, In |-> None, Out |-> b])

punch_in_unguarded(fr, st, t) ==
    [frame |-> loc_set_row(fr, PunchInLabel, <<t>>, None),
     state |-> State_IN]

punch_in_label_zero(fr, st, t) ==
    IF st = State_OUT
    THEN [frame |-> loc_set_row(fr, 0, <<t>>, None), state |-> State_IN]
    ELSE [frame |-> fr, state |-> st]

punch_in(fr, st, t) ==
    IF st = State_OUT
    THEN [frame |-> loc_set_row(fr, PunchInLabel, <<t>>, None),
          state |-> State_IN]
    ELSE [frame |-> fr, state |-> st]

punch_out_unguarded(fr, st, t) ==
    [frame |-> loc_set_out(fr, Len(fr) - 1, <<t>>), state |-> State_OUT]

punch_out_off_by_one(fr, st, t) ==
    IF st = State_IN
    THEN [frame |-> loc_set_out(fr, Len(fr), <<t>>), state |-> State_OUT]
    ELSE [frame |-> fr, state |-> st]

punch_out(fr, st, t) ==
    IF st = State_IN
    THEN LET last_idx == Len(fr) - 1
         IN [frame |-> loc_set_out(fr, last_idx, <<t>>),
             state |-> State_OUT]
    ELSE [frame |-> fr, state |-> st]

(* (frame["Out"] - frame["In"]).sum(): a difference with a missing operand *)
(* is missing, and sum skips the missing differences.                      *)
RECURSIVE elapsed_seconds_sum(_)
elapsed_seconds_sum(fr) ==
    IF fr = <<>> THEN 0
    ELSE LET r == Head(fr)
         IN (IF isnull(r.In) \/ isnull(r.Out) THEN 0 ELSE r.Out[1] - r.In[1])
            + elapsed_seconds_sum(Tail(fr))

(* sum: the summed differences, plus now - In of the last row (by          *)
(* position) when the state is IN.  int() of a missing value raises, and   *)
(* so does iloc[-1] on an empty frame.                                     *)
sum_ignores_state(fr, st, t) ==
    LET elapsed_seconds == elapsed_seconds_sum(fr)
    IN IF Len(fr) # 0 /\ ~isnull(fr[Len(fr)].In)
       THEN [raised |-> FALSE,
             value |-> elapsed_seconds + (t - fr[Len(fr)].In[1])]
       ELSE [raised |-> FALSE, value |-> elapsed_seconds]

sum(fr, st, t) ==
    LET s == <<elapsed_seconds_sum(fr)>>
        elapsed_seconds == IF isnull(s) THEN _NULL_REPLACEMENT ELSE s[1]
    IN IF st = State_IN
       THEN IF Len(fr) = 0 \/ isnull(fr[Len(fr)].In)
            THEN [raised |-> TRUE, value |-> 0]
            ELSE [raised |-> FALSE,
                  value |-> elapsed_seconds + (t - fr[Len(fr)].In[1])]
       ELSE [raised |-> FALSE, value |-> elapsed_seconds]

NoReturn == [raised |-> FALSE, value |-> 0 - 1]

----------------------------------------------------------------------------
(* The state machine. *)

Init ==
    /\ file \in {MissingFile, EmptyFile, WrongSchemaFile}
    /\ _frame = <<>>
    /\ _state = State_OUT
    /\ pc = "closed"
    /\ now = 0
    /\ op = "none"
    /\ at = 0
    /\ prev_op = "none"
    /\ prev_at = 0
    /\ pre_frame = <<>>
    /\ pre_state = State_OUT
    /\ ret = NoReturn
    /\ prev_ret = NoReturn
    /\ loaded = MissingFile
    /\ untouched = TRUE
    /\ nops = 0
    /\ loads = 0

(* The clock advances by a second. *)
Tick ==
    /\ now < MaxTime
    /\ now' = now + 1
    /\ UNCHANGED <<file, _frame, _state, pc, op, at, prev_op, prev_at,
                   pre_frame, pre_state, ret, prev_ret, loaded, untouched,
                   nops, loads>>

(* The history every operation on an open instance records. *)
Record(name) ==
    /\ op' = name
    /\ at' = now
    /\ prev_op' = op
    /\ prev_at' = at
    /\ pre_frame' = _frame
    /\ pre_state' = _state
    /\ prev_ret' = ret
    /\ nops' = nops + 1

(* The positions of the caller at which no instance is in use. *)
Idle == {"closed", "saved", "failed"}

(* with PunchClock(_LOG_PATH) as clock: __init__ and __enter__. *)
Construct ==
    /\ pc \in Idle
    /\ ~init_raises(file)
    /\ _frame' = init(file).frame
    /\ _state' = init(file).state
    /\ pc' = "open"
    /\ op' = "load"
    /\ at' = now
    /\ prev_op' = "none"
    /\ prev_at' = now
    /\ pre_frame' = _frame
    /\ pre_state' = _state
    /\ ret' = NoReturn
    /\ prev_ret' = NoReturn
    /\ loaded' = file
    /\ untouched' = TRUE
    /\ nops' = 0
    /\ loads' = loads + 1
    /\ UNCHANGED <<file, now>>

Load ==
    /\ loads < MaxLoads
    /\ Construct

ConstructFailsAndSaves ==
    /\ pc \in Idle
    /\ init_raises(file)
    /\ file' = to_csv(<<>>)
    /\ pc' = "failed"
    /\ op' = "load_failed"
    /\ at' = now
    /\ prev_op' = "none"
    /\ prev_at' = now
    /\ loaded' = file
    /\ loads' = loads + 1
    /\ UNCHANGED <<_frame, _state, now, pre_frame, pre_state, ret,
                   prev_ret, untouched, nops>>

(* PunchClock(_LOG_PATH) raises: the exception reaches the caller, no      *)
(* instance exists, the with block is never entered and nothing is saved.  *)
ConstructFails ==
    /\ pc \in Idle
    /\ init_raises(file)
    /\ pc' = "failed"
    /\ op' = "load_failed"
    /\ at' = now
    /\ prev_op' = "none"
    /\ prev_at' = now
    /\ loaded' = file
    /\ loads' = loads + 1
    /\ UNCHANGED <<file, _frame, _state, now, pre_frame, pre_state, ret,
                   prev_ret, untouched, nops>>

LoadFail ==
    /\ loads < MaxLoads
    /\ ConstructFails

PunchIn ==
    /\ pc = "open"
    /\ nops < MaxOps
    /\ _frame' = punch_in(_frame, _state, now).frame
    /\ _state' = punch_in(_frame, _state, now).state
    /\ Record("punch_in")
    /\ untouched' = (untouched /\ _state # State_OUT)
    /\ ret' = NoReturn
    /\ UNCHANGED <<file, pc, now, loaded, loads>>

PunchOut ==
    /\ pc = "open"
    /\ nops < MaxOps
    /\ _frame' = punch_out(_frame, _state, now).frame
    /\ _state' = punch_out(_frame, _state, now).state
    /\ Record("punch_out")
    /\ untouched' = (untouched /\ _state # State_IN)
    /\ ret' = NoReturn
    /\ UNCHANGED <<file, pc, now, loaded, loads>>

Reset ==
    /\ pc = "open"
    /\ nops < MaxOps
    /\ _frame' = reset(_frame, _state).frame
    /\ _state' = reset(_frame, _state).state
    /\ Record("reset")
    /\ untouched' = FALSE
    /\ ret' = NoReturn
    /\ UNCHANGED <<file, pc, now, loaded, loads>>

(* sum() returns a duration, or raises; an exception leaves the scope.     *)
Sum ==
    /\ pc = "open"
    /\ nops < MaxOps
    /\ ret' = sum(_frame, _state, now)
    /\ pc' = IF sum(_frame, _state, now).raised THEN "raised" ELSE "open"
    /\ Record("sum")
    /\ UNCHANGED <<file, _frame, _state, now, loaded, untouched, loads>>

ExitSkipsSaveOnRaise ==
    /\ pc \in {"open", "raised"}
    /\ file' = IF pc = "raised" THEN file ELSE to_csv(_frame)
    /\ pc' = IF pc = "raised" THEN "failed" ELSE "saved"
    /\ op' = "exit"
    /\ at' = now
    /\ prev_op' = op
    /\ prev_at' = at
    /\ pre_frame' = _frame
    /\ pre_state' = _state
    /\ UNCHANGED <<_frame, _state, now, ret, prev_ret, loaded, untouched,
                   nops, loads>>

(* __exit__: write the frame to the log, on a normal or exceptional exit   *)
(* of the scope.                                                           *)
Exit ==
    /\ pc \in {"open", "raised"}
    /\ file' = to_csv(_frame)
    /\ pc' = IF pc = "raised" THEN "failed" ELSE "saved"
    /\ op' = "exit"
    /\ at' = now
    /\ prev_op' = op
    /\ prev_at' = at
    /\ pre_frame' = _frame
    /\ pre_state' = _state
    /\ UNCHANGED <<_frame, _state, now, ret, prev_ret, loaded, untouched,
                   nops, loads>>

(* main, after the with block: print the message built from the value of   *)
(* sum() and the state read inside the block.                              *)
Report ==
    /\ pc = "saved"
    /\ op = "exit"
    /\ prev_op = "sum"
    /\ pc' = "closed"
    /\ op' = "report"
    /\ at' = now
    /\ prev_op' = op
    /\ prev_at' = at
    /\ UNCHANGED <<file, _frame, _state, now, pre_frame, pre_state, ret,
                   prev_ret, loaded, untouched, nops, loads>>

Next ==
    \/ Tick
    \/ Load
    \/ LoadFail
    \/ PunchIn
    \/ PunchOut
    \/ Reset
    \/ Sum
    \/ Exit
    \/ Report

Spec == Init /\ [][Next]_vars

----------------------------------------------------------------------------
(* The command line program: every invocation of main constructs the punch *)
(* clock, performs at most one of punch_in, punch_out and reset, calls     *)
(* sum, leaves the with block and prints the message.                      *)

CliInit ==
    /\ Init
    /\ file = MissingFile

CliLoad ==
    /\ pc \in {"closed", "failed"}
    /\ loads < MaxInvocations
    /\ Construct

CliPunchIn ==
    /\ nops = 0
    /\ PunchIn

CliPunchOut ==
    /\ nops = 0
    /\ PunchOut

CliReset ==
    /\ nops = 0
    /\ Reset

CliSum ==
    /\ op # "sum"
    /\ nops <= 1
    /\ Sum

CliExit ==
    /\ op = "sum"
    /\ Exit

CliReport == Report

CliNext ==
    \/ Tick
    \/ CliLoad
    \/ CliPunchIn
    \/ CliPunchOut
    \/ CliReset
    \/ CliSum
    \/ CliExit
    \/ CliReport

CliSpec == CliInit /\ [][CliNext]_vars

----------------------------------------------------------------------------
(* Vocabulary of the properties. *)

(* The contents of a frame: its rows in order, without the index labels.   *)
Rows(fr) == [i \in 1..Len(fr) |-> <<fr[i].In, fr[i].Out>>]

Committed(r) == ~isnull(r.In) /\ ~isnull(r.Out)

(* A log with the header and no data rows. *)
HeaderOnly == [kind |-> "csv", header |-> _COLUMN_NAMES, lines |-> <<>>]

(* The instance was loaded from a log without rows. *)
LoadedFresh == init(loaded).frame = <<>>

(* Total of out - in over the committed rows of a frame. *)
RECURSIVE CommittedTotal(_, _)
CommittedTotal(fr, n) ==
    IF n = 0 THEN 0
    ELSE (IF Committed(fr[n]) THEN fr[n].Out[1] - fr[n].In[1] ELSE 0)
         + CommittedTotal(fr, n - 1)

(* Total of t - in over the open rows (in present, out absent). *)
RECURSIVE OpenTotal(_, _, _)
OpenTotal(fr, n, t) ==
    IF n = 0 THEN 0
    ELSE (IF ~isnull(fr[n].In) /\ isnull(fr[n].Out)
          THEN t - fr[n].In[1] ELSE 0)
         + OpenTotal(fr, n - 1, t)

----------------------------------------------------------------------------
(* C1: from a fresh log, punch_in and then punch_out on one instance leave *)
(* exactly one row, committed, with out - in equal to the clock time       *)
(* elapsed between the two calls.                                          *)
C1_PunchInThenOutOneCommittedRow ==
    (op = "punch_out" /\ prev_op = "punch_in" /\ nops = 2 /\ LoadedFresh)
        => /\ Len(_frame) = 1
           /\ Committed(_frame[1])
           /\ _frame[1].Out[1] - _frame[1].In[1] = at - prev_at

(* C2: in state OUT, punch_in appends exactly one row {in: now, out:       *)
(* absent} as the last row, leaves the earlier rows unchanged and sets the *)
(* state to IN.                                                            *)
C2_PunchInAppendsRow ==
    (op = "punch_in" /\ pre_state = State_OUT)
        => /\ Rows(_frame) = Append(Rows(pre_frame), <<<<at>>, None>>)
           /\ _state = State_IN

(* C3: in state IN, punch_out sets out = now on the last row, changes no   *)
(* other cell, adds or removes no row and sets the state to OUT.           *)
C3_PunchOutClosesLastRow ==
    (op = "punch_out" /\ pre_state = State_IN)
        => /\ Len(pre_frame) > 0
           /\ Len(_frame) = Len(pre_frame)
           /\ \A i \in 1..Len(_frame) :
                Rows(_frame)[i] =
                    IF i = Len(pre_frame)
                    THEN <<pre_frame[i].In, <<at>>>>
                    ELSE Rows(pre_frame)[i]
           /\ _state = State_OUT

(* C4: the state of an instance is IN exactly when its table is non-empty  *)
(* and the last row has an absent out.                                     *)
C4_StateMatchesTable ==
    loads > 0 =>
        (_state = State_IN
            <=> (Len(_frame) > 0 /\ isnull(_frame[Len(_frame)].Out)))

(* C5: every row has a present in, only the last row may have an absent    *)
(* out, and the saved file has a blank Out only in its last data row.      *)
C5_OnlyLastRowOpen ==
    /\ \A i \in 1..Len(_frame) :
            /\ ~isnull(_frame[i].In)
            /\ isnull(_frame[i].Out) => i = Len(_frame)
    /\ \A i \in 1..Len(file.lines) :
            file.lines[i][2] = "" => i = Len(file.lines)

(* C6: loading what an instance saved reproduces that instance's rows in   *)
(* order and its state at save time.                                       *)
C6_RoundTrip ==
    (op = "load" /\ loads > 1)
        => /\ Rows(_frame) = Rows(pre_frame)
           /\ _state = pre_state

(* C7: sum() never fails and returns the total of out - in over committed  *)
(* rows plus now - in of the open row when the state is IN.                *)
C7_SumIsCommittedPlusOpen ==
    op = "sum"
        => /\ ~ret.raised
           /\ ret.value = CommittedTotal(_frame, Len(_frame))
                          + (IF _state = State_IN
                             THEN OpenTotal(_frame, Len(_frame), at) ELSE 0)

(* C8: reset leaves an empty row set and state OUT whatever the state      *)
(* before; a sum() right after it returns zero and a save right after it   *)
(* writes a header-only log.                                               *)
C8_ResetAlwaysEffective ==
    /\ op = "reset" => (_frame = <<>> /\ _state = State_OUT)
    /\ (op = "sum" /\ prev_op = "reset")
            => (~ret.raised /\ ret.value = 0)
    /\ (op = "exit" /\ prev_op = "reset") => file = HeaderOnly

C8_Witness ==
    /\ op = "reset"
    /\ pre_state = State_IN
    /\ Len(pre_frame) >= 2

(* C9: punch_in in state IN changes neither the state nor any row, and a   *)
(* log loaded in state IN and saved after such a call is the log loaded.   *)
C9_PunchInWhileInNoOp ==
    /\ (op = "punch_in" /\ pre_state = State_IN)
            => /\ _state = pre_state
               /\ Len(_frame) = Len(pre_frame)
               /\ Rows(_frame) = Rows(pre_frame)
    /\ (op = "exit" /\ prev_op = "punch_in" /\ untouched
            /\ _state = State_IN)
            => file = loaded

C9_Witness ==
    /\ op = "exit"
    /\ prev_op = "punch_in"
    /\ untouched
    /\ _state = State_IN
    /\ Len(file.lines) > 0

(* C10: punch_out in state OUT changes neither the state nor any row, and  *)
(* a log loaded in state OUT and saved after such a call holds the rows    *)
(* loaded (and is the file loaded, when there was a log to load).          *)
C10_PunchOutWhileOutNoOp ==
    /\ (op = "punch_out" /\ pre_state = State_OUT)
            => /\ _state = pre_state
               /\ Len(_frame) = Len(pre_frame)
               /\ Rows(_frame) = Rows(pre_frame)
    /\ (op = "exit" /\ prev_op = "punch_out" /\ untouched
            /\ _state = State_OUT)
            => /\ Rows(read_csv(file)) = Rows(init(loaded).frame)
               /\ loaded.kind = "csv" => file = loaded

C10_Witness ==
    /\ op = "exit"
    /\ prev_op = "punch_out"
    /\ untouched
    /\ _state = State_OUT
    /\ loaded.kind = "csv"
    /\ Len(file.lines) > 0

(* C11: sum() leaves the rows and the state as they were, and in state OUT *)
(* two consecutive sum() calls return the same value however the clock     *)
(* advanced between them.                                                  *)
C11_SumDoesNotMutate ==
    /\ op = "sum" => (_frame = pre_frame /\ _state = pre_state)
    /\ (op = "sum" /\ prev_op = "sum" /\ _state = State_OUT)
            => ret = prev_ret

C11_Witness ==
    /\ op = "sum"
    /\ prev_op = "sum"
    /\ _state = State_OUT
    /\ at > prev_at
    /\ ret.value > 0

(* C12: loading missing or empty storage gives an instance with an empty   *)
(* table and state OUT whose sum() is zero, and saving it writes the       *)
(* header and no data rows.                                                *)
C12_MissingOrEmptyStorage ==
    loaded.kind \in {"missing", "empty"}
        => /\ op = "load" => (pc = "open" /\ _frame = <<>>
                                /\ _state = State_OUT)
           /\ (op = "sum" /\ untouched) => (~ret.raised /\ ret.value = 0)
           /\ (op = "exit" /\ untouched) => file = HeaderOnly

C12_Witness ==
    /\ loaded.kind = "empty"
    /\ op = "exit"
    /\ prev_op = "sum"
    /\ untouched
    /\ file = HeaderOnly

(* C13: every way out of the with block, normal or by an exception, writes *)
(* the current table to the log; an exception can only leave through that  *)
(* write; and when the result line is printed the table is on disk.        *)
C13_SavedOnEveryExitPath ==
    /\ [][(pc \in {"open", "raised"} /\ pc' \notin {"open", "raised"})
            => file' = to_csv(_frame)]_vars
    /\ [][pc = "raised" => pc' \in {"raised", "failed"}]_vars
    /\ [](op = "report" => (prev_op = "exit" /\ file = to_csv(_frame)))

C13_Witness ==
    /\ op = "exit"
    /\ pc = "failed"
    /\ ret.raised
    /\ file = to_csv(_frame)
    /\ file # loaded

(* A log as the storage format describes it: the header In,Out, every In   *)
(* present, Out blank in the last data row at most.                        *)
WellFormedLog(f) ==
    /\ f.kind = "csv"
    /\ f.header = _COLUMN_NAMES
    /\ \A i \in 1..Len(f.lines) :
            /\ f.lines[i][1] # ""
            /\ f.lines[i][2] = "" => i = Len(f.lines)

NotPunchLog(f) == f.kind = "csv" /\ f.header # _COLUMN_NAMES

RECURSIVE Stamps(_)
Stamps(fr) ==
    IF fr = <<>> THEN <<>>
    ELSE Head(fr).In \o Head(fr).Out \o Stamps(Tail(fr))

(* C18: the table is in chronological order: in <= out within a row, and   *)
(* no row carries a timestamp later than one in a row after it.            *)
C18_TableChronological ==
    \A i, j \in 1..Len(Stamps(_frame)) :
        i < j => Stamps(_frame)[i] <= Stamps(_frame)[j]

(* C19: under the command line usage, starting from missing storage, the   *)
(* saved log has a blank Out in its last row at most, every load derives   *)
(* the state the previous invocation ended in, and sum() succeeds with the *)
(* committed total plus the open session.                                  *)
C19_CliUsageKeepsLogSound ==
    /\ \A i \in 1..Len(file.lines) :
            file.lines[i][2] = "" => i = Len(file.lines)
    /\ (op = "load" /\ loads > 1) => _state = pre_state
    /\ op = "sum"
            => /\ ~ret.raised
               /\ ret.value = CommittedTotal(_frame, Len(_frame))
                              + (IF _state = State_IN
                                 THEN OpenTotal(_frame, Len(_frame), at)
                                 ELSE 0)

C19_Witness ==
    /\ op = "sum"
    /\ loads = 3
    /\ _state = State_IN
    /\ Len(_frame) = 2
    /\ Committed(_frame[1])
    /\ ret.value > 0

(* C20: punch_in, punch_out and sum leave every committed row in place     *)
(* with its in and out; only reset removes committed rows.                 *)
C20_CommittedRowsImmutable ==
    op \in {"punch_in", "punch_out", "sum", "exit", "report"}
        => \A i \in 1..Len(pre_frame) :
                Committed(pre_frame[i])
                    => /\ i <= Len(_frame)
                       /\ Rows(_frame)[i] = Rows(pre_frame)[i]

C20_Witness ==
    /\ op = "punch_in"
    /\ pre_state = State_OUT
    /\ Len(pre_frame) > 0
    /\ Committed(pre_frame[1])
    /\ Len(_frame) = Len(pre_frame) + 1

====
